---- MODULE Spec2Model ----
(***************************************************************************)
(* State-machine model of src/downloader.py: one call of download_file     *)
(* (optionally wrapped by main under asyncio.run), its segment tasks       *)
(* limited_download_chunk / download_chunk_with_retry, the semaphore, the  *)
(* chunk_temp directory, the output file, and the range arithmetic.        *)
(*                                                                         *)
(* A byte of the remote resource is modelled by its offset, so the         *)
(* resource of size n is the sequence <<0, 1, ..., n-1>> and any           *)
(* reordering, loss or duplication of bytes is visible in the output.      *)
(***************************************************************************)
EXTENDS Integers, Sequences, FiniteSets, TLC

\* ---------------------------------------------------------------- bounds
\* Largest Content-Length the modelled server reports.
MaxFileSize == 5
\* Content-Length of the run that has more tasks waiting on the semaphore than
\* one release admits (GateSpec).
GateFileSize == 7
\* Largest resource size and segment length the range planner is run on.
MaxPlanSize == 9
MaxSegLen == 4
DuoMaxSize == 3

\* ------------------------------------------------------ program constants
\* downloader.py:12  CHUNK_SIZE = 4 MiB, scaled down to 2 bytes.
CHUNK_SIZE == 2
\* downloader.py:13  MAX_CONCURRENT_CHUNKS = 100, scaled down to 2 slots.
MAX_CONCURRENT_CHUNKS == 2
\* downloader.py:15  RETRY_ATTEMPTS = 3 (unscaled).
RETRY_ATTEMPTS == 3

\* -------------------------------------------------------- range arithmetic
Min(a, b) == IF a <= b THEN a ELSE b

\* downloader.py:114  num_chunks = (file_size + CHUNK_SIZE - 1) // CHUNK_SIZE
NumChunks(size, seg) == (size + seg - 1) \div seg

\* downloader.py:124  start_byte = chunk_index * CHUNK_SIZE
StartByte(i, seg) == i * seg

\* Variant: the last range is not clamped to the resource size.
EndByteUnclamped(i, seg, size) == (i + 1) * seg - 1

\* downloader.py:125  end_byte = min((chunk_index + 1) * CHUNK_SIZE - 1, file_size - 1)
EndByte(i, seg, size) == Min((i + 1) * seg - 1, size - 1)

\* Largest number of segment tasks of one run, and their indices.
MaxChunks ==
    IF GateFileSize > MaxFileSize THEN NumChunks(GateFileSize, CHUNK_SIZE)
    ELSE NumChunks(MaxFileSize, CHUNK_SIZE)
Idx == 0 .. (MaxChunks - 1)

\* The bytes at offsets a..b of the resource, in order.
Bytes(a, b) == [k \in 1 .. (b - a + 1) |-> a + k - 1]
Resource(size) == Bytes(0, size - 1)

\* ------------------------------------------------------------------ values
NoFile == <<-1>>          \* marks a path at which no file exists
NoLength == -1            \* HEAD response without a Content-Length header

\* HEAD responses of the server: an error status, or a success status
\* with or without Content-Length.
HeadResponses ==
    [status : {"ok"}, length : (0 .. MaxFileSize) \cup {NoLength}]
        \cup [status : {"error"}, length : {NoLength}]

VARIABLES
    viaMain,      \* TRUE: download_file is called by main under asyncio.run
    phase,        \* position of the download_file / main coroutine
    outcome,      \* "none" while running, then "Done" or "Failed"
    cause,        \* the exception download_file raises, "none" if none
    head,         \* the HEAD response received, "none" before it
    file_size,    \* downloader.py:111
    num_chunks,   \* downloader.py:114
    dirExists,    \* CHUNK_DIR exists
    store,        \* store[i]: content of CHUNK_DIR/chunk_i, or NoFile
    sessionOpen,  \* the aiohttp ClientSession is open
    semValue,     \* free slots of the asyncio.Semaphore
    pc,           \* pc[i]: position of segment task i
    attempt,      \* attempt[i]: requests issued by task i
    fails,        \* fails[i]: attempts of task i that ended in the except clause
    chunk_data,   \* chunk_data[i]: payload task i read (downloader.py:39)
    doneOrder,    \* indices of the tasks that returned True, in completion order
    firstRaised,  \* index of the first task that raised, -1 if none
    outFile,      \* content of output_path, or NoFile
    mergeIdx,     \* chunks the merge loop has consumed
    clearLog,     \* one record per clear-all cleanup that ran
    loopAlive,    \* the event loop still runs tasks
    lastErr,      \* lastErr[i]: the error e bound in task i's except clause, "none" outside it
    causeChunk,   \* chunk index named by the RuntimeError download_file raises, -1 if none
    raisedOrder,  \* indices of the tasks that raised, in the order they raised
    unlinks,      \* unlinks[i]: times the chunk file of index i was unlinked
    p_size, p_seg, p_ranges,  \* range planner run on its own
    d_size,       \* d_size[r]: Content-Length of the resource run r downloads
    d_phase,      \* d_phase[r]: position of download_file run r
    d_pc,         \* d_pc[r][k]: position of segment task k of run r
    d_dir,        \* CHUNK_DIR exists
    d_store,      \* d_store[k]: the chunk file of name k, its writer and content
    d_out,        \* d_out[r]: content of the output path of run r, or NoFile
    d_outcome,    \* d_outcome[r]: "none" while running, then "Done" or "Failed"
    d_envFail,    \* d_envFail[r]: the server failed a segment of run r for good
    d_touched     \* what some run did to a chunk file another run wrote

vars == <<viaMain, phase, outcome, cause, head, file_size, num_chunks, dirExists,
          store, sessionOpen, semValue, pc, attempt, fails, chunk_data, doneOrder,
          firstRaised, outFile, mergeIdx, clearLog, loopAlive,
          lastErr, causeChunk, raisedOrder, unlinks,
          p_size, p_seg, p_ranges,
          d_size, d_phase, d_pc, d_dir, d_store, d_out, d_outcome, d_envFail,
          d_touched>>

planVars == <<p_size, p_seg, p_ranges>>
duoVars == <<d_size, d_phase, d_pc, d_dir, d_store, d_out, d_outcome, d_envFail,
             d_touched>>
sideVars == <<planVars, duoVars>>
runVars == <<viaMain, phase, outcome, cause, head, file_size, num_chunks, dirExists,
             store, sessionOpen, semValue, pc, attempt, fails, chunk_data, doneOrder,
             firstRaised, outFile, mergeIdx, clearLog, loopAlive,
             lastErr, causeChunk, raisedOrder, unlinks>>

\* ------------------------------------------------------------ the semaphore
\* downloader.py:120,123  asyncio.Semaphore(MAX_CONCURRENT_CHUNKS): acquire
\* blocks while the value is 0 and decrements it, release increments it.
\* Variant: a semaphore that never reports itself locked.
SemNeverLocked(v) == v < 0
SemLocked(v) == v = 0
SemAcquire(v) == v - 1
SemRelease(v) == v + 1

\* Positions at which a segment task is inside "async with semaphore".
Holding == {"get", "ready", "sleep"}
Holders == {i \in Idx : pc[i] \in Holding}
Waiters == {i \in Idx : pc[i] = "waiting"}

\* asyncio.Semaphore wakes its waiters in FIFO order; the tasks queue up in
\* index order (downloader.py:130).
NextWaiter(i) == i \in Waiters /\ \A j \in Waiters : i <= j

\* --------------------------------------------------------- the chunk store
\* Variant: a glob pattern that matches no chunk file.
GlobWrongPattern(s, d) == {}

\* CHUNK_DIR.glob('chunk_*'): the chunk files present; nothing when the
\* directory does not exist (downloader.py:154, 171).
Glob(s, d) == IF d THEN {i \in Idx : s[i] # NoFile} ELSE {}

\* The clear-all loop: unlink every globbed file, OSError swallowed
\* (downloader.py:154-158, 171-175).
ClearAll(s, d) == [i \in Idx |-> IF i \in Glob(s, d) THEN NoFile ELSE s[i]]

\* chunk_file.unlink() raises FileNotFoundError (an OSError) on a missing file.
UnlinkFails(s, i) == s[i] = NoFile

\* downloader.py:155-158, 172-175: each unlink sits in try / except OSError: pass.
OSErrorCaught == TRUE

\* The clear-all loop raises iff an unlink fails and the error escapes.
ClearRaises(s, d) == \E i \in Glob(s, d) : UnlinkFails(s, i) /\ ~OSErrorCaught

ClearRecord(s, d) ==
    [dir |-> d, files |-> Cardinality(Glob(s, d)),
     raised |-> ClearRaises(s, d)]

\* The unlink counts after the clear-all loop unlinked the globbed files.
CountUnlinks(u, globbed) == [i \in Idx |-> IF i \in globbed THEN u[i] + 1 ELSE u[i]]

StoreEmpty == \A i \in Idx : store[i] = NoFile

\* ------------------------------------------------------------ get_file_info
\* Variant: a missing Content-Length defaults to a size instead of raising.
GetFileInfoDefaultSize(resp) ==
    IF resp.status # "ok" THEN [raised |-> "ClientResponseError", file_size |-> 0]
    ELSE IF resp.length = NoLength THEN [raised |-> "none", file_size |-> CHUNK_SIZE]
    ELSE [raised |-> "none", file_size |-> resp.length]

\* downloader.py:89-101: raise_for_status, then ValueError when the
\* Content-Length header is missing, else file_size = int(Content-Length).
GetFileInfo(resp) ==
    IF resp.status # "ok" THEN [raised |-> "ClientResponseError", file_size |-> 0]
    ELSE IF resp.length = NoLength THEN [raised |-> "ValueError", file_size |-> 0]
    ELSE [raised |-> "none", file_size |-> resp.length]

\* -------------------------------------------------------------- retry loop
\* Variants: the fetcher gives up one attempt early; the fetcher never retries.
IsLastAttemptEarly(a) == a - 1 = RETRY_ATTEMPTS - 2
IsLastAttemptFirst(a) == a >= 1

\* downloader.py:50  if attempt == RETRY_ATTEMPTS - 1: return False
\* (a is the 1-based number of the attempt that just failed).
IsLastAttempt(a) == a - 1 = RETRY_ATTEMPTS - 1

\* downloader.py:35  for attempt in range(RETRY_ATTEMPTS): another iteration
\* follows the a-th one.
LoopHasNext(a) == a < RETRY_ATTEMPTS

\* The bodies response.read() can deliver for the range [a, b] of a resource
\* of the given size when the status is a success: the requested bytes, fewer
\* bytes, or the whole resource (a server that ignores the Range header
\* answers 200). The body is written as received (downloader.py:38-43);
\* neither its length nor the status 206 is checked.
Payloads(a, b, size) ==
    {Bytes(a, b), Resource(size)} \cup (IF b >= a THEN {Bytes(a, b - 1)} ELSE {})

\* ---------------------------------------------------------- initial states
RunInit ==
    /\ phase = "start"
    /\ outcome = "none"
    /\ cause = "none"
    /\ head = [status |-> "none", length |-> NoLength]
    /\ file_size = 0
    /\ num_chunks = 0
    /\ dirExists = FALSE
    /\ store = [i \in Idx |-> NoFile]
    /\ sessionOpen = FALSE
    /\ semValue = MAX_CONCURRENT_CHUNKS
    /\ pc = [i \in Idx |-> "none"]
    /\ attempt = [i \in Idx |-> 0]
    /\ fails = [i \in Idx |-> 0]
    /\ chunk_data = [i \in Idx |-> <<>>]
    /\ doneOrder = <<>>
    /\ firstRaised = -1
    /\ outFile = NoFile
    /\ mergeIdx = 0
    /\ clearLog = <<>>
    /\ loopAlive = TRUE
    /\ lastErr = [i \in Idx |-> "none"]
    /\ causeChunk = -1
    /\ raisedOrder = <<>>
    /\ unlinks = [i \in Idx |-> 0]

\* The two-run model at rest.
Runs == 1 .. 2
DuoIdx == 0 .. (NumChunks(DuoMaxSize, CHUNK_SIZE) - 1)
DuoNoFile == [owner |-> 0, data |-> <<>>]
DuoIdle ==
    /\ d_size = [r \in Runs |-> 1]
    /\ d_phase = [r \in Runs |-> "end"]
    /\ d_pc = [r \in Runs |-> [k \in DuoIdx |-> "none"]]
    /\ d_dir = FALSE
    /\ d_store = [k \in DuoIdx |-> DuoNoFile]
    /\ d_out = [r \in Runs |-> NoFile]
    /\ d_outcome = [r \in Runs |-> "none"]
    /\ d_envFail = [r \in Runs |-> FALSE]
    /\ d_touched = {}

Init ==
    /\ viaMain \in BOOLEAN
    /\ RunInit
    /\ p_size = 0
    /\ p_seg = 1
    /\ p_ranges = <<>>
    /\ DuoIdle

\* ------------------------------------------------- download_file, main path
\* Variant: the output file is opened for writing before the download starts.
MkdirOpensOutput ==
    /\ phase = "start"
    /\ dirExists' = TRUE
    /\ sessionOpen' = TRUE
    /\ outFile' = <<>>
    /\ phase' = "head"
    /\ UNCHANGED <<viaMain, outcome, cause, head, file_size, num_chunks, store,
                   semValue, pc, attempt, fails, chunk_data, doneOrder, firstRaised,
                   mergeIdx, clearLog, loopAlive, sideVars,
                   lastErr, causeChunk, raisedOrder, unlinks>>

\* downloader.py:107-109  CHUNK_DIR.mkdir(exist_ok=True); the session opens;
\* the HEAD request of get_file_info is sent.
Mkdir ==
    /\ phase = "start"
    /\ dirExists' = TRUE
    /\ sessionOpen' = TRUE
    /\ phase' = "head"
    /\ UNCHANGED <<viaMain, outcome, cause, head, file_size, num_chunks, store,
                   semValue, pc, attempt, fails, chunk_data, doneOrder, firstRaised,
                   outFile, mergeIdx, clearLog, loopAlive, sideVars,
                   lastErr, causeChunk, raisedOrder, unlinks>>

\* The semaphore value after the first k tasks, in index order, each ran the
\* first step of limited_download_chunk (downloader.py:123): a task takes a
\* slot unless the semaphore is locked.
RECURSIVE SemAfterStarts(_)
SemAfterStarts(k) ==
    IF k = 0 THEN MAX_CONCURRENT_CHUNKS
    ELSE IF SemLocked(SemAfterStarts(k - 1)) THEN SemAfterStarts(k - 1)
    ELSE SemAcquire(SemAfterStarts(k - 1))

\* Task i finds a free slot at its first step.
StartsAtOnce(i) == ~SemLocked(SemAfterStarts(i))

\* downloader.py:111-131, 122-126, 35-37  get_file_info returns or raises; on
\* return the chunk count is computed and one task per chunk is handed to
\* gather. The event loop runs the first step of every task, in index order,
\* before anything else: a task that finds a free slot takes it and issues
\* its first range request, the others block on the semaphore.
HeadResponse(resp) ==
    /\ phase = "head"
    /\ head' = resp
    /\ LET info == GetFileInfo(resp)
           n == NumChunks(info.file_size, CHUNK_SIZE) IN
         IF info.raised # "none"
         THEN /\ cause' = info.raised
              /\ phase' = "finally"
              /\ UNCHANGED <<file_size, num_chunks, pc, attempt, semValue>>
         ELSE /\ file_size' = info.file_size
              /\ num_chunks' = n
              /\ pc' = [i \in Idx |->
                          IF i >= n THEN "none"
                          ELSE IF StartsAtOnce(i) THEN "get" ELSE "waiting"]
              /\ attempt' = [i \in Idx |-> IF i < n /\ StartsAtOnce(i) THEN 1 ELSE 0]
              /\ semValue' = SemAfterStarts(n)
              /\ phase' = "gather"
              /\ UNCHANGED cause
    /\ UNCHANGED <<viaMain, outcome, dirExists, store, sessionOpen,
                   fails, chunk_data, doneOrder, firstRaised, outFile,
                   mergeIdx, clearLog, loopAlive, sideVars,
                   lastErr, causeChunk, raisedOrder, unlinks>>

\* Variant: gather collects the exceptions (return_exceptions=True) and
\* returns once every task has ended, so the merge starts after a failure too.
GatherReturnsExceptions ==
    /\ phase = "gather"
    /\ \A i \in Idx : i < num_chunks => pc[i] \in {"done", "failed"}
    /\ outFile' = <<>>
    /\ mergeIdx' = 0
    /\ phase' = "merge"
    /\ UNCHANGED <<viaMain, outcome, cause, head, file_size, num_chunks, dirExists,
                   store, sessionOpen, semValue, pc, attempt, fails, chunk_data,
                   doneOrder, firstRaised, clearLog, loopAlive, sideVars,
                   lastErr, causeChunk, raisedOrder, unlinks>>

\* downloader.py:131-134  gather returns once every task has returned;
\* output_path is opened with 'wb' (created or truncated).
GatherReturns ==
    /\ phase = "gather"
    /\ \A i \in Idx : i < num_chunks => pc[i] = "done"
    /\ outFile' = <<>>
    /\ mergeIdx' = 0
    /\ phase' = "merge"
    /\ UNCHANGED <<viaMain, outcome, cause, head, file_size, num_chunks, dirExists,
                   store, sessionOpen, semValue, pc, attempt, fails, chunk_data,
                   doneOrder, firstRaised, clearLog, loopAlive, sideVars,
                   lastErr, causeChunk, raisedOrder, unlinks>>

\* The exception a finished task carries: RuntimeError("Download failed for
\* chunk i") from downloader.py:128, or the error that ended it otherwise.
TaskException(p) == IF p = "failed" THEN "RuntimeError" ELSE "TaskError"

\* downloader.py:131, 150-152  gather (return_exceptions not set) re-raises the
\* first exception a task raised, without waiting for or cancelling the others.
\* The failed task released its slot before it ended, so the waiter that the
\* release woke runs (Acquire) before download_file resumes.
GatherRaises ==
    /\ phase = "gather"
    /\ firstRaised # -1
    /\ Waiters = {} \/ SemLocked(semValue)
    /\ cause' = TaskException(pc[firstRaised])
    /\ causeChunk' = firstRaised
    /\ phase' = "finally"
    /\ UNCHANGED <<viaMain, outcome, head, file_size, num_chunks, dirExists, store,
                   sessionOpen, semValue, pc, attempt, fails, chunk_data, doneOrder,
                   firstRaised, outFile, mergeIdx, clearLog, loopAlive, sideVars,
                   lastErr, raisedOrder, unlinks>>

\* Variant: the merge reads the chunks in the order their tasks completed.
MergeIndexByCompletion(k) == doneOrder[k + 1]

\* downloader.py:135  for chunk_index in range(num_chunks): the k-th chunk read.
MergeIndex(k) == k

\* downloader.py:135-139  one iteration of the merge loop: read the chunk file,
\* append it to the output, unlink it. A missing chunk file raises.
MergeChunk ==
    /\ phase = "merge"
    /\ mergeIdx < num_chunks
    /\ LET i == MergeIndex(mergeIdx) IN
         IF store[i] = NoFile
         THEN /\ cause' = "OSError"
              /\ phase' = "finally"
              /\ UNCHANGED <<outFile, store, mergeIdx, unlinks>>
         ELSE /\ outFile' = outFile \o store[i]
              /\ store' = [store EXCEPT ![i] = NoFile]
              /\ mergeIdx' = mergeIdx + 1
              /\ unlinks' = [unlinks EXCEPT ![i] = unlinks[i] + 1]
              /\ UNCHANGED <<cause, phase>>
    /\ UNCHANGED <<viaMain, outcome, head, file_size, num_chunks, dirExists,
                   sessionOpen, semValue, pc, attempt, fails, chunk_data, doneOrder,
                   firstRaised, clearLog, loopAlive, sideVars,
                   lastErr, causeChunk, raisedOrder>>

\* downloader.py:137-139, 150-152  an I/O error (read, write or unlink) in an
\* iteration of the merge loop; the output keeps what was written before it.
MergeIOError ==
    /\ phase = "merge"
    /\ mergeIdx < num_chunks
    /\ cause' = "OSError"
    /\ phase' = "finally"
    /\ UNCHANGED <<viaMain, outcome, head, file_size, num_chunks, dirExists, store,
                   sessionOpen, semValue, pc, attempt, fails, chunk_data, doneOrder,
                   firstRaised, outFile, mergeIdx, clearLog, loopAlive, sideVars,
                   lastErr, causeChunk, raisedOrder, unlinks>>

\* downloader.py:141  CHUNK_DIR.rmdir() after the merge loop: removes the
\* directory when it is empty, raises OSError otherwise.
MergeFinish ==
    /\ phase = "merge"
    /\ mergeIdx = num_chunks
    /\ IF StoreEmpty
       THEN dirExists' = FALSE /\ UNCHANGED cause
       ELSE cause' = "OSError" /\ UNCHANGED dirExists
    /\ phase' = "finally"
    /\ UNCHANGED <<viaMain, outcome, head, file_size, num_chunks, store,
                   sessionOpen, semValue, pc, attempt, fails, chunk_data, doneOrder,
                   firstRaised, outFile, mergeIdx, clearLog, loopAlive, sideVars,
                   lastErr, causeChunk, raisedOrder, unlinks>>

\* downloader.py:153-158  the finally block of download_file: clear-all.
Finally ==
    /\ phase = "finally"
    /\ clearLog' = Append(clearLog, ClearRecord(store, dirExists))
    /\ store' = ClearAll(store, dirExists)
    /\ unlinks' = CountUnlinks(unlinks, Glob(store, dirExists))
    /\ phase' = "closing"
    /\ UNCHANGED <<viaMain, outcome, cause, head, file_size, num_chunks, dirExists,
                   sessionOpen, semValue, pc, attempt, fails, chunk_data, doneOrder,
                   firstRaised, outFile, mergeIdx, loopAlive, sideVars,
                   lastErr, causeChunk, raisedOrder>>

Outcome(c) == IF c = "none" THEN "Done" ELSE "Failed"

\* downloader.py:109  leaving "async with session" closes the session; then
\* download_file returns or re-raises to a caller other than main.
CloseSession ==
    /\ phase = "closing"
    /\ ~viaMain
    /\ sessionOpen' = FALSE
    /\ outcome' = Outcome(cause)
    /\ phase' = "returned"
    /\ UNCHANGED <<viaMain, cause, head, file_size, num_chunks, dirExists, store,
                   semValue, pc, attempt, fails, chunk_data, doneOrder, firstRaised,
                   outFile, mergeIdx, clearLog, loopAlive, sideVars,
                   lastErr, causeChunk, raisedOrder, unlinks>>

\* downloader.py:109, 165-179  the same under main: the session closes,
\* download_file returns or raises into main, whose finally block runs without
\* suspending: if CHUNK_DIR exists, clear-all and rmdir (OSError swallowed).
CloseSessionMain ==
    /\ phase = "closing"
    /\ viaMain
    /\ sessionOpen' = FALSE
    /\ outcome' = Outcome(cause)
    /\ IF dirExists
       THEN /\ clearLog' = Append(clearLog, ClearRecord(store, dirExists))
            /\ store' = ClearAll(store, dirExists)
            /\ unlinks' = CountUnlinks(unlinks, Glob(store, dirExists))
            /\ dirExists' = (\E i \in Idx : ClearAll(store, dirExists)[i] # NoFile)
       ELSE UNCHANGED <<clearLog, store, dirExists, unlinks>>
    /\ phase' = "main_done"
    /\ UNCHANGED <<viaMain, cause, head, file_size, num_chunks, semValue, pc,
                   attempt, fails, chunk_data, doneOrder, firstRaised, outFile,
                   mergeIdx, loopAlive, sideVars,
                   lastErr, causeChunk, raisedOrder>>

\* downloader.py:183  asyncio.run(main()) cancels the tasks still pending once
\* main has returned, and stops the loop.
LoopShutdown ==
    /\ phase = "main_done"
    /\ pc' = [i \in Idx |-> IF pc[i] \in Holding \cup {"waiting"}
                            THEN "cancelled" ELSE pc[i]]
    /\ semValue' = semValue + Cardinality(Holders)
    /\ loopAlive' = FALSE
    /\ phase' = "exited"
    /\ UNCHANGED <<viaMain, outcome, cause, head, file_size, num_chunks, dirExists,
                   store, sessionOpen, attempt, fails, chunk_data, doneOrder,
                   firstRaised, outFile, mergeIdx, clearLog, sideVars,
                   lastErr, causeChunk, raisedOrder, unlinks>>

\* ------------------------------------------------------- the segment tasks
\* Variant: the exception of the task that raised last replaces the first.
NoteRaisedLast(i) == i

\* A task ends by raising: gather notes the first one (downloader.py:131).
NoteRaised(i) == IF firstRaised = -1 THEN i ELSE firstRaised

\* downloader.py:123-126, 35-37  a slot was released: the waiting task i is
\* admitted by the semaphore and issues its first range request. On a closed session session.get raises
\* RuntimeError, which no except clause of the task catches: the task ends
\* and "async with" releases the slot.
Acquire(i) ==
    /\ loopAlive
    /\ NextWaiter(i)
    /\ ~SemLocked(semValue)
    /\ IF sessionOpen
       THEN /\ semValue' = SemAcquire(semValue)
            /\ attempt' = [attempt EXCEPT ![i] = 1]
            /\ pc' = [pc EXCEPT ![i] = "get"]
            /\ UNCHANGED <<firstRaised, raisedOrder>>
       ELSE /\ semValue' = SemRelease(SemAcquire(semValue))
            /\ pc' = [pc EXCEPT ![i] = "crashed"]
            /\ firstRaised' = NoteRaised(i)
            /\ raisedOrder' = Append(raisedOrder, i)
            /\ UNCHANGED attempt
    /\ UNCHANGED <<viaMain, phase, outcome, cause, head, file_size, num_chunks,
                   dirExists, store, sessionOpen, fails, chunk_data, doneOrder,
                   outFile, mergeIdx, clearLog, loopAlive, sideVars,
                   lastErr, causeChunk, unlinks>>

\* downloader.py:124-126  the payloads task i can receive for its range.
RangePayloads(i) ==
    Payloads(StartByte(i, CHUNK_SIZE), EndByte(i, CHUNK_SIZE, file_size), file_size)

\* downloader.py:37-39  the response arrives with a success status and its
\* body is read in full; the task is scheduled to resume.
ServerResponds(i, data) ==
    /\ loopAlive
    /\ pc[i] = "get"
    /\ sessionOpen
    /\ data \in RangePayloads(i)
    /\ chunk_data' = [chunk_data EXCEPT ![i] = data]
    /\ pc' = [pc EXCEPT ![i] = "ready"]
    /\ UNCHANGED <<viaMain, phase, outcome, cause, head, file_size, num_chunks,
                   dirExists, store, sessionOpen, semValue, attempt, fails,
                   doneOrder, firstRaised, outFile, mergeIdx, clearLog, loopAlive,
                   sideVars,
                   lastErr, causeChunk, raisedOrder, unlinks>>

\* downloader.py:41-46, 123  the resumed task writes chunk_data to its chunk
\* file, returns True and releases the slot. Without CHUNK_DIR the open raises
\* FileNotFoundError, which ends the task.
WriteChunk(i) ==
    /\ loopAlive
    /\ pc[i] = "ready"
    /\ IF dirExists
       THEN /\ store' = [store EXCEPT ![i] = chunk_data[i]]
            /\ pc' = [pc EXCEPT ![i] = "done"]
            /\ doneOrder' = Append(doneOrder, i)
            /\ UNCHANGED <<firstRaised, raisedOrder>>
       ELSE /\ pc' = [pc EXCEPT ![i] = "crashed"]
            /\ firstRaised' = NoteRaised(i)
            /\ raisedOrder' = Append(raisedOrder, i)
            /\ UNCHANGED <<store, doneOrder>>
    /\ semValue' = SemRelease(semValue)
    /\ UNCHANGED <<viaMain, phase, outcome, cause, head, file_size, num_chunks,
                   dirExists, sessionOpen, attempt, fails, chunk_data, outFile,
                   mergeIdx, clearLog, loopAlive, sideVars,
                   lastErr, causeChunk, unlinks>>

\* downloader.py:38, 48  the errors the except clause catches: "transport" is
\* a connection error or asyncio.TimeoutError, "status" is the
\* ClientResponseError raise_for_status raises on an HTTP error status (a
\* subclass of aiohttp.ClientError); a status needs a response, hence an open
\* session.
ErrorKinds == {"transport", "status"}

\* downloader.py:48-53, 127-128  the attempt ends in aiohttp.ClientError (an
\* error status included) or asyncio.TimeoutError: on the last attempt the
\* fetcher returns False and the task raises RuntimeError, releasing the slot;
\* otherwise the task sleeps 1 * (attempt + 1) seconds.
AttemptFails(i, kind) ==
    /\ loopAlive
    /\ pc[i] = "get"
    /\ kind \in ErrorKinds
    /\ kind = "status" => sessionOpen
    /\ lastErr' = [lastErr EXCEPT ![i] = kind]
    /\ fails' = [fails EXCEPT ![i] = fails[i] + 1]
    /\ IF IsLastAttempt(attempt[i])
       THEN /\ pc' = [pc EXCEPT ![i] = "failed"]
            /\ semValue' = SemRelease(semValue)
            /\ firstRaised' = NoteRaised(i)
            /\ raisedOrder' = Append(raisedOrder, i)
       ELSE /\ pc' = [pc EXCEPT ![i] = "sleep"]
            /\ UNCHANGED <<semValue, firstRaised, raisedOrder>>
    /\ UNCHANGED <<viaMain, phase, outcome, cause, head, file_size, num_chunks,
                   dirExists, store, sessionOpen, attempt, chunk_data, doneOrder,
                   outFile, mergeIdx, clearLog, loopAlive, sideVars,
                   causeChunk, unlinks>>

\* downloader.py:53, 35-37, 55  the backoff sleep ends, the except clause is
\* left (e is unbound): the loop issues the
\* next request, or is exhausted and the fetcher returns False. On a closed
\* session session.get raises RuntimeError and the task ends.
Wake(i) ==
    /\ loopAlive
    /\ pc[i] = "sleep"
    /\ lastErr' = [lastErr EXCEPT ![i] = "none"]
    /\ IF ~LoopHasNext(attempt[i])
       THEN /\ pc' = [pc EXCEPT ![i] = "failed"]
            /\ semValue' = SemRelease(semValue)
            /\ firstRaised' = NoteRaised(i)
            /\ raisedOrder' = Append(raisedOrder, i)
            /\ UNCHANGED attempt
       ELSE IF sessionOpen
       THEN /\ attempt' = [attempt EXCEPT ![i] = attempt[i] + 1]
            /\ pc' = [pc EXCEPT ![i] = "get"]
            /\ UNCHANGED <<semValue, firstRaised, raisedOrder>>
       ELSE /\ pc' = [pc EXCEPT ![i] = "crashed"]
            /\ semValue' = SemRelease(semValue)
            /\ firstRaised' = NoteRaised(i)
            /\ raisedOrder' = Append(raisedOrder, i)
            /\ UNCHANGED attempt
    /\ UNCHANGED <<viaMain, phase, outcome, cause, head, file_size, num_chunks,
                   dirExists, store, sessionOpen, fails, chunk_data, doneOrder,
                   outFile, mergeIdx, clearLog, loopAlive, sideVars,
                   causeChunk, unlinks>>

\* ------------------------------------------------------- the specification
Next ==
    \/ Mkdir
    \/ \E resp \in HeadResponses : HeadResponse(resp)
    \/ \E i \in Idx : Acquire(i)
    \/ \E i \in Idx : \E data \in RangePayloads(i) : ServerResponds(i, data)
    \/ \E i \in Idx : WriteChunk(i)
    \/ \E i \in Idx : \E kind \in ErrorKinds : AttemptFails(i, kind)
    \/ \E i \in Idx : Wake(i)
    \/ GatherReturns
    \/ GatherRaises
    \/ MergeChunk
    \/ MergeIOError
    \/ MergeFinish
    \/ Finally
    \/ CloseSession
    \/ CloseSessionMain
    \/ LoopShutdown

Spec == Init /\ [][Next]_vars

\* --------------------------------------- a run with a crowd at the semaphore
\* download_file under main on a resource of GateFileSize bytes, served by a
\* server that answers every range request with exactly the requested bytes
\* or fails it with a transport error or timeout.
GateInit ==
    /\ viaMain = TRUE
    /\ RunInit
    /\ p_size = 0
    /\ p_seg = 1
    /\ p_ranges = <<>>
    /\ DuoIdle

GateNext ==
    \/ Mkdir
    \/ HeadResponse([status |-> "ok", length |-> GateFileSize])
    \/ \E i \in Idx : Acquire(i)
    \/ \E i \in Idx :
          ServerResponds(i, Bytes(StartByte(i, CHUNK_SIZE),
                                  EndByte(i, CHUNK_SIZE, file_size)))
    \/ \E i \in Idx : WriteChunk(i)
    \/ \E i \in Idx : AttemptFails(i, "transport")
    \/ \E i \in Idx : Wake(i)
    \/ GatherReturns
    \/ GatherRaises
    \/ MergeChunk
    \/ MergeFinish
    \/ Finally
    \/ CloseSessionMain
    \/ LoopShutdown

GateSpec == GateInit /\ [][GateNext]_vars

\* ------------------------------------------ the range arithmetic on its own
\* The ranges of downloader.py:114, 124-125 computed for every resource size
\* and segment length within the bounds, one range per step.
PlanInit ==
    /\ viaMain = FALSE
    /\ RunInit
    /\ p_size \in 0 .. MaxPlanSize
    /\ p_seg \in 1 .. MaxSegLen
    /\ p_ranges = <<>>
    /\ DuoIdle

\* downloader.py:130, 124-125  the range of the next chunk index.
PlanRange ==
    /\ Len(p_ranges) < NumChunks(p_size, p_seg)
    /\ p_ranges' = Append(p_ranges,
                          [index |-> Len(p_ranges),
                           startByte |-> StartByte(Len(p_ranges), p_seg),
                           endByte |-> EndByte(Len(p_ranges), p_seg, p_size)])
    /\ UNCHANGED <<p_size, p_seg, runVars, duoVars>>

PlanNext == PlanRange

PlanSpec == PlanInit /\ [][PlanNext]_vars

\* --------------------------------- two runs of download_file in one process
\* Two download_file coroutines on one event loop, each with its own URL and
\* its own output path.  Both use the module-level CHUNK_DIR
\* (downloader.py:14) and the chunk names chunk_0000, chunk_0001, ...
\* (downloader.py:40).  Every range request is answered with exactly the
\* requested bytes, or the fetcher gives up after its attempts.
DuoNumChunks(r) == NumChunks(d_size[r], CHUNK_SIZE)

\* The bytes at offsets a..b of the resource run r downloads.
DuoBytes(r, a, b) == [k \in 1 .. (b - a + 1) |-> <<r, a + k - 1>>]
DuoResource(r) == DuoBytes(r, 0, d_size[r] - 1)

DuoInit ==
    /\ viaMain = FALSE
    /\ RunInit
    /\ p_size = 0
    /\ p_seg = 1
    /\ p_ranges = <<>>
    /\ d_size \in [Runs -> 1 .. DuoMaxSize]
    /\ d_phase = [r \in Runs |-> "start"]
    /\ d_pc = [r \in Runs |-> [k \in DuoIdx |-> "none"]]
    /\ d_dir = FALSE
    /\ d_store = [k \in DuoIdx |-> DuoNoFile]
    /\ d_out = [r \in Runs |-> NoFile]
    /\ d_outcome = [r \in Runs |-> "none"]
    /\ d_envFail = [r \in Runs |-> FALSE]
    /\ d_touched = {}

\* downloader.py:107-131  CHUNK_DIR.mkdir(exist_ok=True), the HEAD request,
\* and gather starting one task per chunk (each run has its own semaphore,
\* line 120, and never more chunks than slots here).
DuoStart(r) ==
    /\ d_phase[r] = "start"
    /\ d_phase' = [d_phase EXCEPT ![r] = "gather"]
    /\ d_dir' = TRUE
    /\ d_pc' = [d_pc EXCEPT ![r] =
                   [k \in DuoIdx |-> IF k < DuoNumChunks(r) THEN "get" ELSE "none"]]
    /\ UNCHANGED <<d_size, d_store, d_out, d_outcome, d_envFail, d_touched,
                   runVars, planVars>>

\* downloader.py:40  chunk_path = CHUNK_DIR / f'chunk_{chunk_index:04d}':
\* the name depends on the chunk index only.
DuoChunkPath(r, k) == k

\* downloader.py:39-46  the response arrived: the chunk file is opened with
\* 'wb' (truncating whatever is there) and written.  Without CHUNK_DIR, open
\* raises FileNotFoundError, which the except clause of line 48 does not
\* catch: the task ends with that exception.
DuoWriteChunk(r, k) ==
    /\ d_pc[r][k] = "get"
    /\ IF d_dir
         THEN /\ d_store' = [d_store EXCEPT ![DuoChunkPath(r, k)] =
                    [owner |-> r,
                     data |-> DuoBytes(r, StartByte(k, CHUNK_SIZE),
                                       EndByte(k, CHUNK_SIZE, d_size[r]))]]
              /\ d_pc' = [d_pc EXCEPT ![r][k] = "done"]
              /\ d_touched' =
                    IF d_store[DuoChunkPath(r, k)].owner \notin {0, r}
                      THEN d_touched \cup {"overwrite"} ELSE d_touched
         ELSE /\ d_pc' = [d_pc EXCEPT ![r][k] = "failed"]
              /\ UNCHANGED <<d_store, d_touched>>
    /\ UNCHANGED <<d_size, d_phase, d_dir, d_out, d_outcome, d_envFail,
                   runVars, planVars>>

\* downloader.py:48-55, 127-128  every attempt of the chunk failed:
\* download_chunk_with_retry returns False and the task raises RuntimeError.
DuoChunkFails(r, k) ==
    /\ d_pc[r][k] = "get"
    /\ d_pc' = [d_pc EXCEPT ![r][k] = "failed"]
    /\ d_envFail' = [d_envFail EXCEPT ![r] = TRUE]
    /\ UNCHANGED <<d_size, d_phase, d_dir, d_store, d_out, d_outcome, d_touched,
                   runVars, planVars>>

\* downloader.py:134-139  the merge loop from chunk k on: read the chunk
\* file into the output and unlink it; open raises FileNotFoundError at the
\* first chunk file that is missing.
RECURSIVE DuoMergeLoop(_, _, _, _, _)
DuoMergeLoop(r, k, st, out, ev) ==
    IF k = DuoNumChunks(r)
      THEN [ok |-> TRUE, store |-> st, out |-> out, ev |-> ev]
    ELSE IF st[DuoChunkPath(r, k)] = DuoNoFile
      THEN [ok |-> FALSE, store |-> st, out |-> out, ev |-> ev]
    ELSE DuoMergeLoop(r, k + 1,
                      [st EXCEPT ![DuoChunkPath(r, k)] = DuoNoFile],
                      out \o st[DuoChunkPath(r, k)].data,
                      IF st[DuoChunkPath(r, k)].owner # r
                        THEN ev \cup {"read", "delete"} ELSE ev)

\* downloader.py:154-158  the finally clause unlinks every chunk_* file in
\* CHUNK_DIR, whoever wrote it.
DuoGlobOwners(st) == {st[k].owner : k \in {j \in DuoIdx : st[j] # DuoNoFile}}
DuoClearEvents(r, st) ==
    IF DuoGlobOwners(st) \ {r} # {} THEN {"delete"} ELSE {}

\* downloader.py:131-158  gather returns: the merge loop, CHUNK_DIR.rmdir()
\* (OSError if the directory is not empty), the except and finally clauses.
\* No await lies between them, so the event loop runs them as one step.
DuoGatherReturns(r) ==
    /\ d_phase[r] = "gather"
    /\ \A k \in DuoIdx : k < DuoNumChunks(r) => d_pc[r][k] = "done"
    /\ LET m == DuoMergeLoop(r, 0, d_store, <<>>, {})
           rmdirOk == m.ok /\ \A k \in DuoIdx : m.store[k] = DuoNoFile
       IN /\ d_out' = [d_out EXCEPT ![r] = m.out]
          /\ d_dir' = IF rmdirOk THEN FALSE ELSE d_dir
          /\ d_outcome' = [d_outcome EXCEPT ![r] =
                              IF rmdirOk THEN "Done" ELSE "Failed"]
          /\ d_store' = [k \in DuoIdx |-> DuoNoFile]
          /\ d_touched' = d_touched \cup m.ev \cup DuoClearEvents(r, m.store)
    /\ d_phase' = [d_phase EXCEPT ![r] = "end"]
    /\ UNCHANGED <<d_size, d_pc, d_envFail, runVars, planVars>>

\* downloader.py:131, 150-158  gather re-raises the exception of a task:
\* the except clause logs and re-raises, the finally clause clears CHUNK_DIR.
DuoGatherRaises(r) ==
    /\ d_phase[r] = "gather"
    /\ \E k \in DuoIdx : d_pc[r][k] = "failed"
    /\ d_outcome' = [d_outcome EXCEPT ![r] = "Failed"]
    /\ d_store' = [k \in DuoIdx |-> DuoNoFile]
    /\ d_touched' = d_touched \cup DuoClearEvents(r, d_store)
    /\ d_phase' = [d_phase EXCEPT ![r] = "end"]
    /\ UNCHANGED <<d_size, d_pc, d_dir, d_out, d_envFail, runVars, planVars>>

DuoNext ==
    \/ \E r \in Runs : DuoStart(r)
    \/ \E r \in Runs : \E k \in DuoIdx : DuoWriteChunk(r, k)
    \/ \E r \in Runs : \E k \in DuoIdx : DuoChunkFails(r, k)
    \/ \E r \in Runs : DuoGatherReturns(r)
    \/ \E r \in Runs : DuoGatherRaises(r)

DuoSpec == DuoInit /\ [][DuoNext]_vars

\* ================================================================== claims
Terminal == outcome # "none"
Tasks == {i \in Idx : i < num_chunks}

\* The chunk payloads of tasks 0 .. k-1 concatenated in index order.
RECURSIVE ConcatByIndex(_)
ConcatByIndex(k) == IF k = 0 THEN <<>> ELSE ConcatByIndex(k - 1) \o chunk_data[k - 1]

\* C1: once download_file has ended (returned or raised), and ever after, the
\* chunk directory holds no chunk file.
C1_NoArtifactAfterEnd == Terminal => StoreEmpty

\* C2: when download_file ends in failure no output file is left at the output
\* path, and an output file that exists after the run holds the whole resource.
C2_NoPartialOutput ==
    Terminal =>
        /\ outcome = "Failed" => outFile = NoFile
        /\ outFile # NoFile => outFile = Resource(file_size)

\* C3: at no point do more than MAX_CONCURRENT_CHUNKS segment tasks hold a
\* slot of the semaphore.
C3_GateBound == Cardinality(Holders) <= MAX_CONCURRENT_CHUNKS

\* C3 witness: the gate is full, one holder is backing off before a retry,
\* and a task is still waiting for a slot.
C3_GateFullWithWaiter ==
    /\ Cardinality(Holders) = MAX_CONCURRENT_CHUNKS
    /\ Waiters # {}
    /\ \E i \in Holders : pc[i] = "sleep"

\* C4 as stated: a fetcher that returns Failed has made RETRY_ATTEMPTS + 1
\* attempts (3 retries after the first attempt).
C4_FailedAfterRetriesPlusOne ==
    \A i \in Idx : pc[i] = "failed" => attempt[i] = RETRY_ATTEMPTS + 1

\* C4 amended: a fetcher whose every attempt fails makes exactly RETRY_ATTEMPTS
\* attempts in total, no more and no fewer, and then returns Failed.
C4_FailedAfterRetryAttempts ==
    \A i \in Idx :
        /\ attempt[i] <= RETRY_ATTEMPTS
        /\ pc[i] = "failed" => attempt[i] = RETRY_ATTEMPTS /\ fails[i] = RETRY_ATTEMPTS
        /\ fails[i] = RETRY_ATTEMPTS => pc[i] = "failed"

\* C4 witness: a fetcher has returned Failed.
C4_SomeFetcherFailed == \E i \in Idx : pc[i] = "failed" /\ fails[i] = attempt[i]

\* C5 as stated: a segment whose first k attempts fail, k <= 3, is given
\* attempt k+1 and succeeds with it after exactly k+1 attempts.
C5_AbsorbsUpToThreeFailures ==
    \A i \in Idx :
        /\ pc[i] = "done" => attempt[i] = fails[i] + 1
        /\ fails[i] <= RETRY_ATTEMPTS => pc[i] # "failed"

\* C5 amended: for k <= RETRY_ATTEMPTS - 1 a segment whose first k attempts
\* fail and whose attempt k+1 succeeds ends Success after exactly k+1 attempts,
\* and when every segment ends Success no fetch failure fails the run (it ends
\* Done unless merging or removing the directory raises an I/O error).
C5_AbsorbsTransientFailures ==
    /\ \A i \in Idx :
        /\ pc[i] = "done" => attempt[i] = fails[i] + 1 /\ fails[i] <= RETRY_ATTEMPTS - 1
        /\ fails[i] <= RETRY_ATTEMPTS - 1 => pc[i] # "failed"
    /\ head.status = "ok" /\ head.length # NoLength /\ (\A i \in Tasks : pc[i] = "done") =>
        /\ cause \in {"none", "OSError"}
        /\ Terminal /\ cause = "none" => outcome = "Done"

\* C5 witness: a segment failed twice and succeeded on its third attempt, and
\* the run ended Done.
C5_ThirdAttemptSucceeds ==
    /\ outcome = "Done"
    /\ \E i \in Tasks : pc[i] = "done" /\ fails[i] = 2 /\ attempt[i] = 3

\* Least n with n * seg >= size: ceil(size / seg), computed by search.
CeilDiv(size, seg) == CHOOSE n \in 0 .. size : n * seg >= size /\ \A m \in 0 .. (n - 1) : m * seg < size

PlanComplete == Len(p_ranges) = NumChunks(p_size, p_seg)
RangeSet(r) == r.startByte .. r.endByte

\* C6: the planned ranges are contiguous, non-overlapping, non-empty, cover
\* exactly [0, resourceSize - 1], and number ceil(resourceSize / segmentLength)
\* (0 for an empty resource).
C6_RangesPartitionResource ==
    PlanComplete =>
        /\ Len(p_ranges) = CeilDiv(p_size, p_seg)
        /\ \A k \in 1 .. Len(p_ranges) :
            /\ p_ranges[k].startByte <= p_ranges[k].endByte
            /\ p_ranges[k].startByte = (k - 1) * p_seg
            /\ k > 1 => p_ranges[k].startByte = p_ranges[k - 1].endByte + 1
        /\ \A j, k \in 1 .. Len(p_ranges) :
            j # k => RangeSet(p_ranges[j]) \cap RangeSet(p_ranges[k]) = {}
        /\ UNION {RangeSet(p_ranges[k]) : k \in 1 .. Len(p_ranges)} = 0 .. (p_size - 1)

\* C6 witness: a complete plan of at least three ranges whose last range is
\* shorter than the segment length.
C6_PlanWithShortTail ==
    /\ PlanComplete
    /\ Len(p_ranges) >= 3
    /\ p_size % p_seg # 0

\* C7: when download_file returns normally the output file is byte-identical
\* to the resource and has its length.
C7_DoneOutputIdentical ==
    outcome = "Done" => outFile = Resource(file_size) /\ Len(outFile) = file_size

\* C8: whatever the order in which the segment tasks complete, the merge
\* consumes the chunks in ascending index order: the output is the
\* concatenation of the payloads of chunks 0 .. mergeIdx-1 by index.
C8_MergeByIndex ==
    outFile # NoFile => outFile = ConcatByIndex(mergeIdx)

\* C8 witness: a run of three segments ended Done although segment 1
\* completed first and segment 0 last.
C8_DoneOutOfOrder ==
    /\ outcome = "Done"
    /\ doneOrder = <<1, 2, 0>>
    /\ Len(outFile) = file_size

\* C9: a HEAD response without Content-Length fails the run with the metadata
\* error before any segment task exists: no range request is issued and no
\* semaphore slot is ever taken.
C9_NoLengthNoFetch ==
    head.status = "ok" /\ head.length = NoLength =>
        /\ \A i \in Idx : pc[i] = "none" /\ attempt[i] = 0
        /\ semValue = MAX_CONCURRENT_CHUNKS
        /\ cause = "ValueError"
        /\ Terminal => outcome = "Failed"

\* C9 witness: the run has ended Failed after a HEAD response without length.
C9_FailedOnMissingLength ==
    head.status = "ok" /\ head.length = NoLength /\ outcome = "Failed"

\* C10: every run of the clear-all cleanup, be it the second in a row, on an
\* empty directory or on a directory that no longer exists, raises nothing and
\* leaves no chunk file.
C10_ClearIdempotent ==
    [][Len(clearLog') > Len(clearLog) =>
          StoreEmpty' /\ ~clearLog'[Len(clearLog')].raised]_vars

\* C10 witness: the cleanup ran twice in a row, the first run removing chunk
\* files and the second finding none, and the directory is gone.
C10_ClearedTwice ==
    /\ Len(clearLog) = 2
    /\ clearLog[1].files > 0
    /\ clearLog[2].files = 0
    /\ ~dirExists

\* Positions at which a segment task has terminated.
TerminatedPcs == {"done", "failed", "crashed", "cancelled"}

\* C11: download_file leaves the gather (towards merging or towards cleanup)
\* only after every submitted segment task has terminated; no task is still
\* running during cleanup or once the run is terminal.
C11_BarrierBeforeLeavingGather ==
    phase \notin {"start", "head", "gather"} =>
        \A i \in Tasks : pc[i] \in TerminatedPcs

\* C12: once a segment has terminated Failed, no task still waiting on the
\* semaphore is admitted: it takes no slot and issues no request.
C12_NoAdmissionAfterFailure ==
    [][(\E i \in Idx : pc[i] = "failed") =>
          \A j \in Idx : pc[j] = "waiting" => pc'[j] \in {"waiting", "cancelled"}]_vars

\* Length of the range of chunk i: end_byte - start_byte + 1.
ExpectedLen(i) == EndByte(i, CHUNK_SIZE, file_size) - StartByte(i, CHUNK_SIZE) + 1

\* C14: an attempt succeeds only with a payload of exactly
\* end_byte - start_byte + 1 bytes; a payload of another length is a failed
\* attempt and is never written to the store.
C14_OnlyExactPayloadSucceeds ==
    \A i \in Tasks :
        /\ pc[i] = "done" => Len(chunk_data[i]) = ExpectedLen(i)
        /\ store[i] # NoFile => Len(store[i]) = ExpectedLen(i)

\* C15: every exit path of a segment task gives its slot back, and every task
\* that waits on the semaphore is admitted before the event loop is done
\* with the run: no task ends without ever having been admitted.
C15_EveryWaiterAdmitted ==
    /\ semValue + Cardinality(Holders) = MAX_CONCURRENT_CHUNKS
    /\ \A i \in Tasks : ~(pc[i] = "cancelled" /\ attempt[i] = 0)

\* C16: the merge is running only if every planned segment task returned
\* success and the chunks not yet consumed are in the store; once a segment
\* has failed the merge never starts and the output is never opened.
C16_MergeOnlyAfterAllSuccess ==
    /\ phase = "merge" =>
          \A i \in Tasks : pc[i] = "done" /\ (i >= mergeIdx => store[i] # NoFile)
    /\ (\E i \in Tasks : pc[i] = "failed") =>
          phase # "merge" /\ mergeIdx = 0 /\ outFile = NoFile

\* C16 witness: the merge is about to start on three chunks, one of which
\* needed a retry.
C16_MergeStarts ==
    /\ phase = "merge"
    /\ mergeIdx = 0
    /\ num_chunks = 3
    /\ \E i \in Tasks : fails[i] > 0

\* C17: an attempt rejected with an HTTP error status is final: the fetcher
\* does not back off and retry after it, the segment is Failed at once.
C17_RejectionNotRetried ==
    \A i \in Tasks : lastErr[i] = "status" => pc[i] = "failed"

\* C18: every chunk file written during the run is unlinked exactly once,
\* by the merge or by the cleanup: never twice, and not left behind once the
\* run has ended and every task has terminated.
C18_UnlinkedExactlyOnce ==
    /\ \A i \in Idx : unlinks[i] <= 1
    /\ Terminal /\ (\A j \in Tasks : pc[j] \in TerminatedPcs) =>
          \A i \in Tasks : pc[i] = "done" => unlinks[i] = 1

\* C19 as stated: when segments failed, the failure the run reports is the
\* underlying transport error of the first segment that failed.
C19_ReportsTransportError ==
    cause # "none" /\ raisedOrder # <<>> => cause = lastErr[raisedOrder[1]]

\* C19 amended: when segments failed, the run reports the RuntimeError
\* "Download failed for chunk i" of the first segment i that failed (its
\* transport error is only logged), and no later segment failure and no
\* cleanup step replaces the failure once it is set.
C19_FirstFailureWins ==
    /\ [](cause # "none" /\ raisedOrder # <<>> =>
            cause = "RuntimeError" /\ causeChunk = raisedOrder[1])
    /\ [][cause # "none" => cause' = cause /\ causeChunk' = causeChunk]_vars

\* C19 witness: two segments failed, the cleanup ran, and the run ended
\* Failed naming the first of them.
C19_TwoFailuresFirstReported ==
    /\ outcome = "Failed"
    /\ Len(raisedOrder) >= 2
    /\ pc[raisedOrder[2]] = "failed"
    /\ causeChunk = raisedOrder[1]
    /\ causeChunk > raisedOrder[2]
    /\ clearLog # <<>>

\* C20: the output path is written (created, truncated, appended to) only by
\* steps taken after the metadata query succeeded and every segment task
\* returned success; a run that fails before that never touches it.
C20_OutputUntouchedBeforeAllSuccess ==
    [][outFile' # outFile =>
          /\ head.status = "ok" /\ head.length # NoLength
          /\ \A i \in Tasks : pc[i] = "done"]_vars

\* C20 witness: a run ended Failed on a segment failure after another segment
\* had been fetched, and no output file exists.
C20_FailedInFlightNoOutput ==
    /\ outcome = "Failed"
    /\ cause = "RuntimeError"
    /\ \E i \in Tasks : pc[i] = "done"
    /\ outFile = NoFile

\* C13: concurrent downloads do not share a store: while two download_file
\* runs are active, no run reads, overwrites or deletes a chunk file the
\* other run wrote, and each run ends as it would alone: Done with its own
\* resource as output if the server served all its segments, Failed with no
\* output otherwise.
C13_NoStoreSharing ==
    /\ d_touched = {}
    /\ \A r \in Runs :
          d_outcome[r] # "none" =>
              IF d_envFail[r]
                THEN d_outcome[r] = "Failed" /\ d_out[r] = NoFile
                ELSE d_outcome[r] = "Done" /\ d_out[r] = DuoResource(r)

====
